---- MODULE Spec2Model ----
(***************************************************************************)
(* Verifiable encryption, task 1 (src/src/tasks/task1.rs): the relation    *)
(* circuit MyCircuit::synthesize, the public-input layout                  *)
(* MyInstance::to_halo2_instance and the round trip of tests::round_trip.  *)
(*                                                                         *)
(* The Pallas curve y^2 = x^3 + 5 is kept, over a field small enough to    *)
(* enumerate: F_7, where the curve has prime order 7 and the generator is  *)
(* (-1, 2) as on Pallas.                                                   *)
(***************************************************************************)
EXTENDS Integers, Sequences, FiniteSets, TLC

\* ------------------------------------------------------------------ fields
\* modulus of pallas::Base (= vesta::Scalar), the field of coordinates
P == 7
\* order of the Pallas group, modulus of pallas::Scalar
Q == 7
\* the curve constant of y^2 = x^3 + 5 (pallas::Base::from(5))
CurveB == 5
\* number of blocks split_message_into_blocks yields
NumBlocks == 2

Fp == 0..(P - 1)
Fq == 0..(Q - 1)

FAdd(a, b) == (a + b) % P
FSub(a, b) == (a - b) % P
FMul(a, b) == (a * b) % P

RECURSIVE FPow(_, _)
FPow(a, n) == IF n = 0 THEN 1 ELSE FMul(a, FPow(a, n - 1))

FInv(a) == FPow(a, P - 2)

\* ------------------------------------------------------------------- group
\* pallas::Point: the identity, or an affine point of the curve.  The
\* identity carries the coordinates (0, 0), as the circuit's cells do.
Identity == [inf |-> TRUE, x |-> 0, y |-> 0]
Affine(x, y) == [inf |-> FALSE, x |-> x, y |-> y]

OnCurve(x, y) == FMul(y, y) = FAdd(FMul(x, FMul(x, x)), CurveB)

CurvePoints == {Affine(c[1], c[2]) : c \in {d \in Fp \X Fp : OnCurve(d[1], d[2])}}
Points == CurvePoints \cup {Identity}

Neg(A) == IF A.inf THEN Identity ELSE Affine(A.x, FSub(0, A.y))

PointAdd(A, B) ==
  IF A.inf THEN B
  ELSE IF B.inf THEN A
  ELSE IF A.x = B.x /\ FAdd(A.y, B.y) = 0 THEN Identity
  ELSE LET lambda == IF A.x = B.x
                     THEN FMul(FMul(3, FMul(A.x, A.x)), FInv(FMul(2, A.y)))
                     ELSE FMul(FSub(B.y, A.y), FInv(FSub(B.x, A.x)))
           x3 == FSub(FSub(FMul(lambda, lambda), A.x), B.x)
           y3 == FSub(FMul(lambda, FSub(A.x, x3)), A.y)
       IN Affine(x3, y3)

RECURSIVE ScalarMul(_, _)
ScalarMul(k, A) == IF k = 0 THEN Identity ELSE PointAdd(A, ScalarMul(k - 1, A))

\* pallas::Affine::generator()
Generator == Affine(P - 1, 2)

\* Option<T>: None, or Some(v)
None == {}
Some(v) == {v}
The(s) == CHOOSE v \in s : TRUE

\* --------------------------------------------------- instance slot indices
ZERO == 0
ELGAMAL_CT1_X == 1
ELGAMAL_CT1_Y == 2
ELGAMAL_CT2_X == 3
ELGAMAL_CT2_Y == 4
ELGAMAL_PK_X == 5
ELGAMAL_PK_Y == 6

Slots == 0..6

\* ----------------------------------------------------------------- ElGamal
\* ElGamalKeypair::new, with the sampled secret key as its input
ElGamalKeypairNew(sk) ==
  [private_key |-> sk, public_key |-> ScalarMul(sk, Generator)]

\* the randomness extended_elgamal_encrypt may draw for message m: r_encode
\* is resampled until x = m + r_encode has a square root y of x^3 + 5
EncryptRandomness(m) ==
  {r \in [r_encode : Fp, y : Fp, r_enc : Fq] : OnCurve(FAdd(m, r.r_encode), r.y)}

\* extended_elgamal_encrypt: (DataInTransmit, ElGamalSecret)
extended_elgamal_encrypt(public_key, message, rnd) ==
  LET p_m == Affine(FAdd(message, rnd.r_encode), rnd.y)
      c1 == ScalarMul(rnd.r_enc, Generator)
      c2 == PointAdd(p_m, ScalarMul(rnd.r_enc, public_key))
  IN [data |-> [ct |-> [c1 |-> c1, c2 |-> c2], r_encode |-> rnd.r_encode],
      secret |-> [r_enc |-> rnd.r_enc, p_m |-> p_m]]

\* extended_elgamal_decrypt: c2 - [sk]c1, then the message from its x
extended_elgamal_decrypt(private_key, data) ==
  LET p == PointAdd(data.ct.c2, Neg(ScalarMul(private_key, data.ct.c1)))
  IN IF p.inf THEN None ELSE Some(FSub(p.x, data.r_encode))

\* pallas::Base::from_repr(r.to_repr()): None unless r is below the modulus.
\* Here Q = P, so every scalar converts; on Pallas Q > P and the scalars from
\* P up do not.
from_repr(r) == IF r < P THEN Some(r) ELSE None

\* ---------------------------------------------------------- circuit chips
\* AddSubMulChip: load_private, load_constant, add, sub, mul
load_private(v) == v
load_constant(v) == v % P
add(a, b) == FAdd(a, b)
sub(a, b) == FSub(a, b)
mul(a, b) == FMul(a, b)

\* Layouter::constrain_instance: the cell equals the instance value at row
constrain_instance(cell, inst, row) == cell = inst[row]

\* AddSubMulChip::check_result: the result equals the public value at row
check_result(inst, res, row) == constrain_instance(res, inst, row)

\* NonIdentityPoint::new: witnessing fails for the identity
NonIdentityPointNew(pt) == ~pt.inf

\* ScalarVar::from_base and NonIdentityPoint::mul: [alpha]B, alpha a base
\* field element read as an integer
EccMul(base, alpha) == ScalarMul(alpha % Q, base)

\* Point::add: complete addition
EccAdd(A, B) == PointAdd(A, B)

\* ------------------------------------------------- MyCircuit::synthesize
\* MyCircuit {ct: DataInTransmit, elgamal_public_key, m, p_m, r_enc}
MyCircuit(data, public_key, m, p_m, r_enc) ==
  [ct |-> data, elgamal_public_key |-> public_key, m |-> m, p_m |-> p_m,
   r_enc |-> r_enc]

\* synthesize_1_1 with the last gate an addition: m + r_encode + p_m.x
synthesize_1_1_adds(self, inst) ==
  LET r_encode == load_private(self.ct.r_encode)
      message == load_private(self.m)
      exp_m == add(message, r_encode)
      res == add(exp_m, self.p_m.x)
  IN check_result(inst, res, 0)

\* (1.1) p_m.x = r_encode + m
synthesize_1_1(self, inst) ==
  LET r_encode == load_private(self.ct.r_encode)
      message == load_private(self.m)
      exp_m == add(message, r_encode)
      res == sub(exp_m, self.p_m.x)
  IN check_result(inst, res, 0)

\* (1.2) p_m.x^3 + 5 = p_m.y^2
synthesize_1_2(self, inst) ==
  LET x2 == mul(self.p_m.x, self.p_m.x)
      x3 == mul(self.p_m.x, x2)
      five == load_constant(CurveB)
      left == add(x3, five)
      right == mul(self.p_m.y, self.p_m.y)
      res == sub(left, right)
  IN check_result(inst, res, 0)

\* (2.1) ct_1 = [r_enc]generator
synthesize_2_1(self, inst) ==
  LET ct1_expected == EccMul(Generator, self.r_enc)
  IN /\ NonIdentityPointNew(Generator)
     /\ constrain_instance(ct1_expected.x, inst, ELGAMAL_CT1_X)
     /\ constrain_instance(ct1_expected.y, inst, ELGAMAL_CT1_Y)

\* synthesize_2_2 without the binding of the key's y to ELGAMAL_PK_Y
synthesize_2_2_unbound_pk_y(self, inst) ==
  LET elgamal_public_key == self.elgamal_public_key
      r_mul_pk == EccMul(elgamal_public_key, self.r_enc)
      ct_2_expected == EccAdd(r_mul_pk, self.p_m)
  IN /\ NonIdentityPointNew(elgamal_public_key)
     /\ constrain_instance(elgamal_public_key.x, inst, ELGAMAL_PK_X)
     /\ constrain_instance(ct_2_expected.x, inst, ELGAMAL_CT2_X)
     /\ constrain_instance(ct_2_expected.y, inst, ELGAMAL_CT2_Y)

\* (2.2) ct_2 = p_m + [r_enc]pk
synthesize_2_2(self, inst) ==
  LET elgamal_public_key == self.elgamal_public_key
      r_mul_pk == EccMul(elgamal_public_key, self.r_enc)
      ct_2_expected == EccAdd(r_mul_pk, self.p_m)
  IN /\ NonIdentityPointNew(elgamal_public_key)
     /\ constrain_instance(elgamal_public_key.x, inst, ELGAMAL_PK_X)
     /\ constrain_instance(elgamal_public_key.y, inst, ELGAMAL_PK_Y)
     /\ constrain_instance(ct_2_expected.x, inst, ELGAMAL_CT2_X)
     /\ constrain_instance(ct_2_expected.y, inst, ELGAMAL_CT2_Y)

\* the circuit with its values assigned is satisfied against inst
synthesize(self, inst) ==
  /\ NonIdentityPointNew(self.p_m)
  /\ synthesize_1_1(self, inst)
  /\ synthesize_1_2(self, inst)
  /\ synthesize_2_1(self, inst)
  /\ synthesize_2_2(self, inst)

\* --------------------------------------------------------------- MyInstance
MyInstance(data, public_key) == [ct |-> data, elgamal_public_key |-> public_key]

\* to_affine().coordinates(): None for the identity
coordinates(pt) == IF pt.inf THEN None ELSE Some([x |-> pt.x, y |-> pt.y])

\* to_halo2_instance storing c1's coordinates in each other's slot
to_halo2_instance_swapped(self, rnd) ==
  LET c1 == coordinates(self.ct.ct.c1)
      c2 == coordinates(self.ct.ct.c2)
      pk == coordinates(self.elgamal_public_key)
      i0 == [i \in Slots |-> rnd]
      i1 == [i0 EXCEPT ![ZERO] = 0]
  IN IF c1 = None \/ c2 = None \/ pk = None THEN None
     ELSE Some([i1 EXCEPT ![ELGAMAL_CT1_Y] = The(c1).x,
                          ![ELGAMAL_CT1_X] = The(c1).y,
                          ![ELGAMAL_CT2_X] = The(c2).x,
                          ![ELGAMAL_CT2_Y] = The(c2).y,
                          ![ELGAMAL_PK_X] = The(pk).x,
                          ![ELGAMAL_PK_Y] = The(pk).y])

\* to_halo2_instance leaving slot ZERO at its random fill
to_halo2_instance_random_zero(self, rnd) ==
  LET c1 == coordinates(self.ct.ct.c1)
      c2 == coordinates(self.ct.ct.c2)
      pk == coordinates(self.elgamal_public_key)
      i0 == [i \in Slots |-> rnd]
  IN IF c1 = None \/ c2 = None \/ pk = None THEN None
     ELSE Some([i0 EXCEPT ![ELGAMAL_CT1_X] = The(c1).x,
                          ![ELGAMAL_CT1_Y] = The(c1).y,
                          ![ELGAMAL_CT2_X] = The(c2).x,
                          ![ELGAMAL_CT2_Y] = The(c2).y,
                          ![ELGAMAL_PK_X] = The(pk).x,
                          ![ELGAMAL_PK_Y] = The(pk).y])

\* MyInstance::to_halo2_instance; rnd is the random fill of line 339.  None
\* when an unwrap() of coordinates() panics.
to_halo2_instance(self, rnd) ==
  LET c1 == coordinates(self.ct.ct.c1)
      c2 == coordinates(self.ct.ct.c2)
      pk == coordinates(self.elgamal_public_key)
      i0 == [i \in Slots |-> rnd]
      i1 == [i0 EXCEPT ![ZERO] = 0]
  IN IF c1 = None \/ c2 = None \/ pk = None THEN None
     ELSE Some([i1 EXCEPT ![ELGAMAL_CT1_X] = The(c1).x,
                          ![ELGAMAL_CT1_Y] = The(c1).y,
                          ![ELGAMAL_CT2_X] = The(c2).x,
                          ![ELGAMAL_CT2_Y] = The(c2).y,
                          ![ELGAMAL_PK_X] = The(pk).x,
                          ![ELGAMAL_PK_Y] = The(pk).y])

\* ------------------------------------------------------ tests::create_circuit
\* decrypt_sent with the key of another keypair
decrypt_sent_other_key(keypair_, data) ==
  extended_elgamal_decrypt((keypair_.private_key + 1) % Q, data)

\* the decryption create_circuit checks the encryption with
decrypt_sent(keypair_, data) ==
  extended_elgamal_decrypt(keypair_.private_key, data)

\* create_circuit: the circuit, or the panic it ends in
create_circuit(message, keypair_, rnd) ==
  LET enc == extended_elgamal_encrypt(keypair_.public_key, message, rnd)
      decrypted_message == decrypt_sent(keypair_, enc.data)
      r_enc == from_repr(enc.secret.r_enc)
      panicked == IF decrypted_message = None THEN "Decryption failed"
                  ELSE IF The(decrypted_message) # message THEN "assert_eq"
                  ELSE IF r_enc = None THEN "unwrap"
                  ELSE ""
  IN [panic |-> panicked,
      decrypted |-> decrypted_message,
      circuit |-> IF panicked # "" THEN None
                  ELSE Some(MyCircuit(enc.data, keypair_.public_key, message,
                                      enc.secret.p_m, The(r_enc)))]

\* ---------------------------------------------------------- proving backend
\* circuit size parameter
K == 11

\* Params::new(K)
ParamsNew(k) == [k |-> k]

\* plonk::keygen_vk, plonk::keygen_pk: fixed by the parameters and the
\* constraint system, not by the values the circuit holds
keygen_vk(params_, circuit_) == [params |-> params_, cs |-> "task1"]
keygen_pk(params_, vk_, circuit_) == [vk |-> vk_]

\* CircuitCost::proof_size: fixed by the constraint system and the number of
\* instances
proof_size(instances) == [cs |-> "task1", instances |-> instances]

\* plonk::create_proof and transcript.finalize(): None for an Err
create_proof(params_, pk_, circuit_, inst) ==
  IF synthesize(circuit_, inst)
  THEN Some([assignment |-> circuit_, vk |-> pk_.vk, len |-> proof_size(1)])
  ELSE None

\* plonk::verify_proof(...).is_ok()
verify_proof(params_, vk_, inst, proof_) ==
  /\ proof_.vk = vk_
  /\ vk_.params = params_
  /\ synthesize(proof_.assignment, inst)

\* ------------------------------------------------------- tests::round_trip
VARIABLES
  pc,          \* position in round_trip
  keypair,     \* ElGamalKeypair::new()
  params,      \* Params::new(K)
  paramsGen,   \* how many times parameters were generated
  block,       \* index of the block the loop is at
  circuit,     \* circuit[0]
  decrypted,   \* decrypted_message of create_circuit
  instance,    \* the 7 public scalars
  vk,          \* verifying key
  pkey,        \* proving key
  proof,       \* transcript.finalize()
  verify,      \* verify.is_ok()
  outcome,     \* per block: "unprocessed", "accepted" or "failed"
  panic,       \* the panic the test ended in, "" when none
  audit,       \* a verifier checking the proof with its own public inputs
  satisfied    \* the result of synthesize on drawn inputs

vars == <<pc, keypair, params, paramsGen, block, circuit, decrypted, instance,
          vk, pkey, proof, verify, outcome, panic, audit, satisfied>>

perBlock == <<circuit, decrypted, instance, vk, pkey, proof, verify>>

Blocks == 1..NumBlocks

Init ==
  /\ pc = "elgamal_keygen"
  /\ keypair = None
  /\ params = None
  /\ paramsGen = 0
  /\ block = 1
  /\ circuit = None
  /\ decrypted = None
  /\ instance = None
  /\ vk = None
  /\ pkey = None
  /\ proof = None
  /\ verify = None
  /\ outcome = [b \in Blocks |-> "unprocessed"]
  /\ panic = ""
  /\ audit = None
  /\ satisfied = None

\* LoopNext with Params::new(K) inside the loop
LoopNextRegenerates(b) ==
  IF b <= NumBlocks THEN (IF b > 1 THEN "setup" ELSE "create_circuit")
  ELSE "done"

\* where the for loop over the blocks goes for block b
LoopNext(b) == IF b <= NumBlocks THEN "create_circuit" ELSE "done"

\* a panic (unwrap, expect, assert) ends the test inside the current block
Panics(why) ==
  /\ pc' = "panicked"
  /\ panic' = why
  /\ outcome' = [outcome EXCEPT ![block] = "failed"]

\* let keypair = ElGamalKeypair::new();
ElGamalKeygen ==
  /\ pc = "elgamal_keygen"
  /\ \E sk \in Fq : keypair' = Some(ElGamalKeypairNew(sk))
  /\ pc' = "setup"
  /\ UNCHANGED <<params, paramsGen, block, perBlock, outcome, panic, audit,
                 satisfied>>

\* let params = Params::new(K); and the loop's first iteration
Setup ==
  /\ pc = "setup"
  /\ params' = Some(ParamsNew(K))
  /\ paramsGen' = paramsGen + 1
  /\ pc' = LoopNext(block)
  /\ UNCHANGED <<keypair, block, perBlock, outcome, panic, audit, satisfied>>

\* Step 1: m from the block, then create_circuit(m, keypair.clone())
CreateCircuit ==
  /\ pc = "create_circuit"
  /\ \E m \in Fp : \E rnd \in EncryptRandomness(m) :
       LET r == create_circuit(m, The(keypair), rnd)
       IN /\ decrypted' = r.decrypted
          /\ circuit' = r.circuit
          /\ IF r.panic = ""
             THEN pc' = "instance" /\ UNCHANGED <<outcome, panic>>
             ELSE Panics(r.panic)
  /\ UNCHANGED <<keypair, params, paramsGen, block, instance, vk, pkey, proof,
                 verify, audit, satisfied>>

\* Step 2: MyInstance from the circuit's ct and key, to_halo2_instance()
ArrangeInstance ==
  /\ pc = "instance"
  /\ \E rnd \in Fp :
       LET c == The(circuit)
           h == to_halo2_instance(MyInstance(c.ct, c.elgamal_public_key), rnd)
       IN /\ instance' = h
          /\ IF h # None
             THEN pc' = "keygen" /\ UNCHANGED <<outcome, panic>>
             ELSE Panics("unwrap")
  /\ UNCHANGED <<keypair, params, paramsGen, block, circuit, decrypted, vk,
                 pkey, proof, verify, audit, satisfied>>

\* Step 3: keygen_vk, keygen_pk
Keygen ==
  /\ pc = "keygen"
  /\ LET v == keygen_vk(The(params), The(circuit))
     IN /\ vk' = Some(v)
        /\ pkey' = Some(keygen_pk(The(params), v, The(circuit)))
  /\ pc' = "prove"
  /\ UNCHANGED <<keypair, params, paramsGen, block, circuit, decrypted,
                 instance, proof, verify, outcome, panic, audit, satisfied>>

\* Step 4: create_proof(...).unwrap(), transcript.finalize()
CreateProof ==
  /\ pc = "prove"
  /\ LET r == create_proof(The(params), The(pkey), The(circuit), The(instance))
     IN /\ proof' = r
        /\ IF r # None
           THEN pc' = "verify" /\ UNCHANGED <<outcome, panic>>
           ELSE Panics("unwrap")
  /\ UNCHANGED <<keypair, params, paramsGen, block, circuit, decrypted,
                 instance, vk, pkey, verify, audit, satisfied>>

\* Step 5: verify_proof, assert!(verify.is_ok())
VerifyProof ==
  /\ pc = "verify"
  /\ LET ok == verify_proof(The(params), The(vk), The(instance), The(proof))
     IN /\ verify' = Some(ok)
        /\ IF ok
           THEN pc' = "cost" /\ UNCHANGED <<outcome, panic>>
           ELSE Panics("assert")
  /\ UNCHANGED <<keypair, params, paramsGen, block, circuit, decrypted,
                 instance, vk, pkey, proof, audit, satisfied>>

\* the circuit cost, assert_eq!(proof.len(), expected_proof_size), and the
\* loop's next iteration, whose bindings are fresh
MeasureCost ==
  /\ pc = "cost"
  /\ IF The(proof).len = proof_size(1)
     THEN /\ pc' = LoopNext(block + 1)
          /\ outcome' = [outcome EXCEPT ![block] = "accepted"]
          /\ block' = block + 1
          /\ circuit' = None
          /\ decrypted' = None
          /\ instance' = None
          /\ vk' = None
          /\ pkey' = None
          /\ proof' = None
          /\ verify' = None
          /\ UNCHANGED panic
     ELSE Panics("assert_eq") /\ UNCHANGED <<block, perBlock>>
  /\ UNCHANGED <<keypair, params, paramsGen, audit, satisfied>>

Next ==
  \/ ElGamalKeygen
  \/ Setup
  \/ CreateCircuit
  \/ ArrangeInstance
  \/ Keygen
  \/ CreateProof
  \/ VerifyProof
  \/ MeasureCost

Spec == Init /\ [][Next]_vars

\* ----------------------------------------------- the backend returning Err
\* keygen_vk / keygen_pk return Err: .unwrap() panics
KeygenFails ==
  /\ pc = "keygen"
  /\ Panics("unwrap")
  /\ UNCHANGED <<keypair, params, paramsGen, block, perBlock, audit, satisfied>>

\* create_proof returns Err: .unwrap() panics
CreateProofFails ==
  /\ pc = "prove"
  /\ Panics("unwrap")
  /\ UNCHANGED <<keypair, params, paramsGen, block, perBlock, audit, satisfied>>

\* verify_proof returns Err: assert!(verify.is_ok()) panics
VerifyProofFails ==
  /\ pc = "verify"
  /\ verify' = Some(FALSE)
  /\ Panics("assert")
  /\ UNCHANGED <<keypair, params, paramsGen, block, circuit, decrypted,
                 instance, vk, pkey, proof, audit, satisfied>>

NextFault == Next \/ KeygenFails \/ CreateProofFails \/ VerifyProofFails

SpecFault == Init /\ [][NextFault]_vars

\* ------------------------------------- a verifier with its own public inputs
\* what the verifier hands to verify_proof, and what it answers
Audited(kind, r_encode, inst) ==
  /\ audit' = Some([kind |-> kind, r_encode |-> r_encode, instance |-> inst,
                    ok |-> verify_proof(The(params), The(vk), inst, The(proof))])
  /\ pc' = "audited"
  /\ UNCHANGED <<keypair, params, paramsGen, block, perBlock, outcome, panic,
                 satisfied>>

\* the prover's 7 scalars with one slot changed
VerifyOtherSlot ==
  /\ pc = "verify"
  /\ \E slot \in Slots : \E v \in Fp \ {The(instance)[slot]} :
       Audited("slot", The(circuit).ct.r_encode,
               [The(instance) EXCEPT ![slot] = v])

\* a MyInstance with the prover's ciphertext and another public key
VerifyOtherKey ==
  /\ pc = "verify"
  /\ \E key \in CurvePoints \ {The(circuit).elgamal_public_key} : \E rnd \in Fp :
       Audited("key", The(circuit).ct.r_encode,
               The(to_halo2_instance(MyInstance(The(circuit).ct, key), rnd)))

\* a MyInstance whose DataInTransmit carries another r_encode
VerifyOtherREncode ==
  /\ pc = "verify"
  /\ \E r \in Fp \ {The(circuit).ct.r_encode} : \E rnd \in Fp :
       LET data == [The(circuit).ct EXCEPT !.r_encode = r]
           mine == MyInstance(data, The(circuit).elgamal_public_key)
       IN Audited("r_encode", r, The(to_halo2_instance(mine, rnd)))

NextVerifier == Next \/ VerifyOtherSlot \/ VerifyOtherKey \/ VerifyOtherREncode

SpecVerifier == Init /\ [][NextVerifier]_vars

\* ------------------------------------------------ synthesize on any inputs
\* the messages and encoding randomness synthesize is tried on
SynthMessages == Fp
SynthREncode == {0, 3}

\* the 7 scalars carrying the points A, B, C, the identity as (0, 0)
RawInstance(A, B, C) ==
  [i \in Slots |->
     CASE i = ZERO -> 0
       [] i = ELGAMAL_CT1_X -> A.x
       [] i = ELGAMAL_CT1_Y -> A.y
       [] i = ELGAMAL_CT2_X -> B.x
       [] i = ELGAMAL_CT2_Y -> B.y
       [] i = ELGAMAL_PK_X -> C.x
       [] i = ELGAMAL_PK_Y -> C.y]

\* the public inputs tried against circuit c: those of its own ciphertext
\* and key, with one point replaced or one slot overwritten
SynthInstances(c) ==
  LET e1 == ScalarMul(c.r_enc % Q, Generator)
      e2 == PointAdd(c.p_m, ScalarMul(c.r_enc % Q, c.elgamal_public_key))
      e3 == c.elgamal_public_key
      own == RawInstance(e1, e2, e3)
  IN {RawInstance(A, e2, e3) : A \in Points}
     \cup {RawInstance(e1, B, e3) : B \in Points}
     \cup {RawInstance(e1, e2, C) : C \in Points}
     \cup {[own EXCEPT ![t[1]] = t[2]] : t \in Slots \X Fp}

InitSynth ==
  /\ pc = "synth"
  /\ keypair = None
  /\ params = None
  /\ paramsGen = 0
  /\ block = 1
  /\ \E m \in SynthMessages, r_encode \in SynthREncode, p_m \in Points,
        r_enc \in Fp, key \in Points :
       circuit = Some(MyCircuit([ct |-> [c1 |-> Identity, c2 |-> Identity],
                                 r_encode |-> r_encode], key, m, p_m, r_enc))
  /\ decrypted = None
  /\ instance = None
  /\ vk = None
  /\ pkey = None
  /\ proof = None
  /\ verify = None
  /\ outcome = [b \in Blocks |-> "unprocessed"]
  /\ panic = ""
  /\ audit = None
  /\ satisfied = None

\* synthesize the drawn circuit against drawn public inputs
Synthesize ==
  /\ pc = "synth"
  /\ \E inst \in SynthInstances(The(circuit)) :
       /\ instance' = Some(inst)
       /\ satisfied' = Some(synthesize(The(circuit), inst))
  /\ pc' = "synth_done"
  /\ UNCHANGED <<keypair, params, paramsGen, block, circuit, decrypted, vk,
                 pkey, proof, verify, outcome, panic, audit>>

NextSynth == Synthesize

SpecSynth == InitSynth /\ [][NextSynth]_vars

\* ================================================================== claims

\* the point the scalars at slots i, j carry, the identity as (0, 0)
PointAt(inst, i, j) ==
  IF inst[i] = 0 /\ inst[j] = 0 THEN Identity ELSE Affine(inst[i], inst[j])

\* the ciphertext or the key of circuit c is the identity
Degenerate(c) ==
  c.ct.ct.c1.inf \/ c.ct.ct.c2.inf \/ c.elgamal_public_key.inf

\* C1: with a valid keypair (a secret key other than 0), whatever the block
\* and the randomness drawn, the round trip never panics and the proof it
\* makes is accepted.
C1_RoundTripAccepts ==
  \A kp \in keypair :
    kp.private_key # 0 =>
      /\ pc # "panicked"
      /\ \A ok \in verify : ok

\* The round trip panics only in to_halo2_instance, on a ciphertext or key
\* that is the identity; every other run is proven and accepted.
RoundTripAcceptsUnlessDegenerate ==
  /\ pc = "panicked" =>
       /\ panic = "unwrap"
       /\ instance = None
       /\ \E c \in circuit : Degenerate(c)
  /\ \A ok \in verify : ok

\* C2: a proof made from the honest witness is rejected against public
\* inputs that differ from the prover's in one of the 7 slots, and against
\* the public inputs of another public key.
C2_TamperedInstanceRejected ==
  \A a \in audit : a.kind \in {"slot", "key"} => ~a.ok

C2_Witness ==
  \E a \in audit :
    /\ a.kind = "slot"
    /\ a.instance[0] # 0
    /\ \A i \in 1..6 : a.instance[i] = The(instance)[i]
    /\ ~a.ok

\* C3: the instance to_halo2_instance builds is the 7 scalars
\* [0, c1.x, c1.y, c2.x, c2.y, pk.x, pk.y] of the ciphertext and the key,
\* and the values the circuit binds to the slots of c1, c2 and pk are the
\* values stored there.
C3_InstanceLayout ==
  \A inst \in instance :
    LET c == The(circuit)
    IN /\ DOMAIN inst = 0..6
       /\ ~Degenerate(c)
       /\ inst[0] = 0
       /\ inst[1] = c.ct.ct.c1.x
       /\ inst[2] = c.ct.ct.c1.y
       /\ inst[3] = c.ct.ct.c2.x
       /\ inst[4] = c.ct.ct.c2.y
       /\ inst[5] = c.elgamal_public_key.x
       /\ inst[6] = c.elgamal_public_key.y
       /\ synthesize_2_1(c, inst)
       /\ synthesize_2_2(c, inst)

C3_Witness ==
  /\ pc = "keygen"
  /\ instance # None
  /\ The(instance)[1] = ScalarMul(The(circuit).r_enc, Generator).x

\* C4: create_circuit never fails to decrypt what it encrypted, and the
\* decrypted message is the message of the circuit.
C4_DecryptionConsistent ==
  /\ panic \notin {"Decryption failed", "assert_eq"}
  /\ \A c \in circuit : decrypted = Some(c.m)

C4_Witness ==
  /\ pc = "instance"
  /\ \E c \in circuit : c.m # 0 /\ decrypted = Some(c.m)

\* C5: r_encode is a public input: a proof made with one r_encode is
\* rejected by a verifier whose DataInTransmit carries another r_encode.
C5_REncodeIsPublic ==
  \A a \in audit :
    (a.kind = "r_encode" /\ a.r_encode # The(circuit).ct.r_encode) => ~a.ok

\* C7: when key generation, proving or verification fails for a block, every
\* other block is still processed.
C7_BlockIsolation ==
  (pc = "panicked" /\ instance # None) =>
    \A b \in Blocks \ {block} : outcome[b] # "unprocessed"

\* C8: the parameters are generated once, before any block, and every block
\* goes circuit, instance, keys, proof, verification in that order, its keys
\* made from the shared parameters.
C8_ProtocolOrder ==
  /\ paramsGen <= 1
  /\ params = None <=> paramsGen = 0
  /\ circuit # None => params = Some(ParamsNew(K))
  /\ instance # None => circuit # None
  /\ vk # None => instance # None
  /\ pkey # None <=> vk # None
  /\ \A v \in vk : v.params = The(params)
  /\ proof # None => pkey # None
  /\ verify # None => proof # None
  /\ \A b \in Blocks : outcome[b] = "accepted" => b < block

C8_Witness ==
  /\ pc = "cost"
  /\ block = NumBlocks
  /\ block > 1
  /\ verify = Some(TRUE)
  /\ paramsGen = 1

\* the four relations of the module documentation
Relation_1_1(c) == (c.m + c.ct.r_encode) % P = c.p_m.x
Relation_1_2(c) == (c.p_m.x * c.p_m.x * c.p_m.x + 5) % P = (c.p_m.y * c.p_m.y) % P
Relation_2_1(c, inst) ==
  ScalarMul(c.r_enc % Q, Generator) = PointAt(inst, 1, 2)
Relation_2_2(c, inst) ==
  /\ PointAdd(c.p_m, ScalarMul(c.r_enc % Q, c.elgamal_public_key))
       = PointAt(inst, 3, 4)
  /\ c.elgamal_public_key = PointAt(inst, 5, 6)
Relation(c, inst) ==
  /\ Relation_1_1(c)
  /\ Relation_1_2(c)
  /\ Relation_2_1(c, inst)
  /\ Relation_2_2(c, inst)

\* C9 as stated: the circuit is satisfied if and only if (1.1), (1.2),
\* (2.1) and (2.2) hold.
C9_SatisfiedIffRelation ==
  pc = "synth_done" =>
    (The(satisfied) <=> Relation(The(circuit), The(instance)))

\* C9, amended: the circuit is satisfied if and only if slot 0 holds 0, the
\* public key is not the identity, and (1.1), (1.2), (2.1) and (2.2) hold;
\* public inputs whose c1 or c2 is not the witness's are never satisfied.
C9_SatisfiedIffRelationAndZero ==
  pc = "synth_done" =>
    LET c == The(circuit)
        inst == The(instance)
    IN /\ The(satisfied) <=>
            /\ inst[0] = 0
            /\ ~c.elgamal_public_key.inf
            /\ Relation(c, inst)
       /\ (~Relation_2_1(c, inst) \/ ~Relation_2_2(c, inst)) => ~The(satisfied)

C9_Witness ==
  /\ pc = "synth_done"
  /\ The(satisfied)
  /\ The(circuit).r_enc # 0
  /\ The(circuit).m # 0

\* inst with v at slot 0
WithSlotZero(inst, v) == [inst EXCEPT ![0] = v]

\* C10 as stated: slot 0 of a built instance holds 0, and none of the four
\* checks depends on the value at slot 0.
C10_SlotZeroIgnored ==
  \A inst \in instance :
    LET c == The(circuit)
    IN /\ inst[0] = 0
       /\ \A v \in Fp :
            /\ synthesize_1_1(c, WithSlotZero(inst, v)) = synthesize_1_1(c, inst)
            /\ synthesize_1_2(c, WithSlotZero(inst, v)) = synthesize_1_2(c, inst)
            /\ synthesize_2_1(c, WithSlotZero(inst, v)) = synthesize_2_1(c, inst)
            /\ synthesize_2_2(c, WithSlotZero(inst, v)) = synthesize_2_2(c, inst)

\* C10, amended: slot 0 of a built instance holds 0; checks (2.1) and (2.2)
\* do not depend on the value at slot 0; checks (1.1) and (1.2) compare
\* their difference with the value at slot 0, so they hold with 0 there and
\* fail with any other value.
C10_SlotZeroIsTheZeroCompared ==
  \A inst \in instance :
    LET c == The(circuit)
    IN /\ inst[0] = 0
       /\ synthesize_1_1(c, inst)
       /\ synthesize_1_2(c, inst)
       /\ \A v \in Fp :
            /\ synthesize_2_1(c, WithSlotZero(inst, v)) = synthesize_2_1(c, inst)
            /\ synthesize_2_2(c, WithSlotZero(inst, v)) = synthesize_2_2(c, inst)
            /\ v # 0 => ~synthesize_1_1(c, WithSlotZero(inst, v))
            /\ v # 0 => ~synthesize_1_2(c, WithSlotZero(inst, v))

C10_Witness ==
  /\ pc = "verify"
  /\ \E inst \in instance :
       inst[0] = 0 /\ ~synthesize_1_1(The(circuit), WithSlotZero(inst, 1))

====
